---- MODULE Spec2Model ----
(***************************************************************************)
(* Model of swfusion/match_era5_smap.py (class matchManager): matching of  *)
(* SMAP wind pixels around tropical-cyclone track fixes with ERA5 fields.  *)
(*                                                                         *)
(* Units.  Times are seconds (date_time of a fix: seconds since the start  *)
(* of the first day; satellite times: seconds since the start of the query *)
(* date).  Track coordinates are whole degrees, interpolated coordinates   *)
(* are exact rationals <<numerator, denominator>> in lowest terms.  Grid   *)
(* coordinates are in eighths of a degree, so the 0.25-degree SMAP grid    *)
(* (origin -89.875 / 0.125) and the ERA5 grid are integer valued.          *)
(***************************************************************************)
EXTENDS Integers, Naturals, Sequences, FiniteSets, TLC

VARIABLES
    \* ---- extract(): traversal of the track fixes
    tc_query,      \* the ordered query result: sequence of track fixes
    idx,           \* enumerate() index of the traversal, 0-based as in the code
    pc,            \* "loop", "between", "done", "exited"
    hours,         \* extract_between_two_tc_records: int(delta.seconds / 3600)
    h,             \* extract_between_two_tc_records: loop variable
    calls,         \* the extract_detail calls made so far, in order
    \* ---- get_smap_part(): one extraction of satellite pixels
    query,         \* the arguments tc_id, tc_dt, tc_lon, tc_lat
    half_edge_grid_intervals,   \* int(half_edge / spa_resolu['smap'])
    sm_pc,         \* "start", "cells", "returned", "exited"
    square,        \* what get_square_around_tc returned
    y,             \* row of the window the loop is at
    x,             \* column of the window the loop is at
    cell,          \* minute[y][x][:] and wind[y][x][:] of the cell read last
    rolled,        \* number of passes dropped because the hour rounds to the next day
    data,          \* the rows kept so far
    envelope,      \* north, west, south, east
    hourtimes,     \* the set of rounded hours of the rows kept
    smap_result,   \* what get_smap_part returned
    \* ---- extract_detail(): the ERA5 passes over the rows and the sink
    e_pc,          \* "idle", "single_hours", "single_grbs", "derived",
                   \* "pressure_download", "pressure_hours", "pressure_grbs",
                   \* "sink", "done", "exited"
    satel_part,    \* the rows being filled (satel_part, era5_step_1)
    pattern,       \* the contents of the ERA5 files
    hourtime,      \* loop variable of for hourtime in range(0, 2400, 100)
    g,             \* position in selected_grbs
    grbidx_open,   \* the pygrib index is open
    pres_lvls,     \* nearest pressure level of every row
    reads,         \* the grb.data calls of the single and of the pressure pass,
                   \* each as <<hourtime, number of the message>>
    mutations,     \* per row, the kinds of mutation in the order they began
    sink           \* the rows handed to bulk_insert_avoid_duplicate_unique

trackVars == <<tc_query, idx, pc, hours, h, calls>>
smapVars == <<query, half_edge_grid_intervals, sm_pc, square, y, x, cell, rolled,
              data, envelope, hourtimes, smap_result>>
era5Vars == <<e_pc, satel_part, pattern, hourtime, g, grbidx_open, pres_lvls,
              reads, mutations, sink>>
vars == <<trackVars, smapVars, era5Vars>>

----------------------------------------------------------------------------
(* Bounds of the model *)

MaxFixes == 3
\* largest half edge of the window, in grid intervals
MaxHalfEdge == 1

----------------------------------------------------------------------------
(* Exact arithmetic *)

Abs(n) == IF n < 0 THEN -n ELSE n

RECURSIVE GCD(_, _)
GCD(a, b) == IF b = 0 THEN a ELSE GCD(b, a % b)

\* the rational n/d (d > 0) in lowest terms
Rat(n, d) == LET k == GCD(Abs(n), d) IN <<n \div k, d \div k>>

RatAdd(p, q) == Rat(p[1] * q[2] + q[1] * p[2], p[2] * q[2])
RatMul(p, q) == Rat(p[1] * q[1], p[2] * q[2])

SecondsPerDay == 86400
SecondsPerHour == 3600

\* datetime.timedelta normalisation: days may be negative, 0 <= seconds < 86400
TimedeltaDays_nodays(delta) == 0
TimedeltaDays(delta) == delta \div SecondsPerDay
TimedeltaSeconds(delta) == delta % SecondsPerDay

----------------------------------------------------------------------------
(* The track source: an ordered sequence of fixes *)

\* positions <<lon, lat>> a fix can have, lon in 0..360
Positions == {<<130, 10>>, <<135, 12>>, <<121, 24>>}

\* cells <<lat, lon>> (lon in -180..180) the land mask reports as land
LandCells == {<<24, 121>>}

\* time between two consecutive fixes of the query result
Gaps == {1800, 3600, 7200, 10800, 93600}

Sids == {1, 2}

Fix(sid, t, pos) == [sid |-> sid, date_time |-> t, lon |-> pos[1], lat |-> pos[2]]

\* sequences of fixes ordered by track and time, the first one at time 0
RECURSIVE FixSeqs(_)
FixSeqs(n) ==
    IF n = 1
    THEN {<<Fix(s, 0, p)>> : s \in Sids, p \in Positions}
    ELSE {Append(q, Fix(s, q[n-1].date_time + gap, p)) :
              q \in FixSeqs(n - 1), s \in Sids, p \in Positions, gap \in Gaps}

OrderedBySid(q) == \A i \in 1..(Len(q) - 1) : q[i].sid <= q[i+1].sid

TrackInputs == UNION {{q \in FixSeqs(n) : OrderedBySid(q)} : n \in 1..MaxFixes}

\* utils.longtitude_converter(lon, '360', '-180')
longtitude_converter(lon) == IF lon > 180 THEN lon - 360 ELSE lon

\* globe.is_land(lat, lon)
is_land(lat, lon) == <<lat, lon>> \in LandCells

\* utils.get_center_shift_of_two_tcs(next_tc, tc)
get_center_shift_of_two_tcs(next_tc, tc) ==
    <<next_tc.lon - tc.lon, next_tc.lat - tc.lat>>

----------------------------------------------------------------------------
(* extract(): lines 89-109, and extract_between_two_tc_records()           *)

total == Len(tc_query)
tc == tc_query[idx + 1]
next_tc == tc_query[idx + 2]

\* one call of extract_detail; "of" is the traversal index that made it and
\* "ok" whether the call returned (TRUE) or raised (FALSE)
Call(sid, dt, lon, lat, ok) ==
    [sid |-> sid, dt |-> dt, lon |-> lon, lat |-> lat, of |-> idx, ok |-> ok]

\* the except clause of extract: breakpoint(); exit(msg)
\* exit raises SystemExit, which ends the traversal and the process
Exited == pc' = "exited" /\ UNCHANGED <<tc_query, idx, hours, h>>

TcIsLand == is_land(tc.lat, longtitude_converter(tc.lon))

\* lines 93-94: the fix is on land, continue
SkipLand ==
    /\ pc = "loop" /\ idx < total
    /\ TcIsLand
    /\ idx' = idx + 1
    /\ UNCHANGED <<tc_query, pc, hours, h, calls>>

\* lines 100-106: the last fix, or the next fix belongs to another track
ExtractSingle ==
    /\ pc = "loop" /\ idx < total
    /\ ~TcIsLand
    /\ (idx < total - 1 => tc.sid # next_tc.sid)
    /\ \E ok \in BOOLEAN :
         /\ calls' = Append(calls,
                Call(tc.sid, tc.date_time, Rat(tc.lon, 1), Rat(tc.lat, 1), ok))
         /\ IF ok
            THEN idx' = idx + 1 /\ UNCHANGED <<tc_query, pc, hours, h>>
            ELSE Exited

\* lines 113-118: the two fixes are a day or more apart, no interpolation
ExtractFarApart ==
    /\ pc = "loop" /\ idx < total - 1
    /\ ~TcIsLand
    /\ tc.sid = next_tc.sid
    /\ TimedeltaDays(next_tc.date_time - tc.date_time) # 0
    /\ \E ok \in BOOLEAN :
         /\ calls' = Append(calls,
                Call(tc.sid, tc.date_time, Rat(tc.lon, 1), Rat(tc.lat, 1), ok))
         /\ IF ok
            THEN idx' = idx + 1 /\ UNCHANGED <<tc_query, pc, hours, h>>
            ELSE Exited

\* lines 119-124: hours and the hourly shifts; the division raises
\* ZeroDivisionError when hours = 0
EnterBetween ==
    /\ pc = "loop" /\ idx < total - 1
    /\ ~TcIsLand
    /\ tc.sid = next_tc.sid
    /\ TimedeltaDays(next_tc.date_time - tc.date_time) = 0
    /\ LET hrs == TimedeltaSeconds(next_tc.date_time - tc.date_time)
                      \div SecondsPerHour
       IN  IF hrs = 0
           THEN Exited /\ UNCHANGED calls
           ELSE /\ pc' = "between"
                /\ hours' = hrs
                /\ h' = 0
                /\ UNCHANGED <<tc_query, idx, calls>>

hourly_lon_shift_undivided == <<get_center_shift_of_two_tcs(next_tc, tc)[1], 1>>
hourly_lat_shift_undivided == <<get_center_shift_of_two_tcs(next_tc, tc)[2], 1>>
hourly_lon_shift == <<get_center_shift_of_two_tcs(next_tc, tc)[1], hours>>
hourly_lat_shift == <<get_center_shift_of_two_tcs(next_tc, tc)[2], hours>>

\* lines 126-132: one iteration of for h in range(hours)
BetweenCall ==
    /\ pc = "between" /\ h < hours
    /\ LET interp_dt == tc.date_time + h * SecondsPerHour
           interp_tc_lon == RatAdd(RatMul(<<h, 1>>, hourly_lon_shift), <<tc.lon, 1>>)
           interp_tc_lat == RatAdd(RatMul(<<h, 1>>, hourly_lat_shift), <<tc.lat, 1>>)
       IN \E ok \in BOOLEAN :
            /\ calls' = Append(calls,
                   Call(tc.sid, interp_dt, interp_tc_lon, interp_tc_lat, ok))
            /\ IF ok
               THEN h' = h + 1 /\ UNCHANGED <<tc_query, idx, pc, hours>>
               ELSE Exited

\* the for loop of extract_between_two_tc_records is exhausted
BetweenReturn ==
    /\ pc = "between" /\ h = hours
    /\ pc' = "loop"
    /\ idx' = idx + 1
    /\ UNCHANGED <<tc_query, hours, h, calls>>

\* the for loop of extract is exhausted
ExtractReturn ==
    /\ pc = "loop" /\ idx = total
    /\ pc' = "done"
    /\ UNCHANGED <<tc_query, idx, hours, h, calls>>


----------------------------------------------------------------------------
(* The grids, lines 44-61, in eighths of a degree *)

\* self.lats['smap'] and self.lons['smap'] as sequences: element i + 1 is
\* the element of index i of the list
smap_lats == [i \in 1..720 |-> 2 * (i - 1) - 719]
smap_lons == [i \in 1..1440 |-> 2 * (i - 1) + 1]
spa_resolu_smap == 2
FullCircle == 2880

\* utils.get_nearest_element_and_index: the index of the element closest to
\* value, the first one on ties
RECURSIVE NearestIn(_, _, _, _)
NearestIn(list, value, lo, hi) ==
    IF lo = hi THEN lo
    ELSE LET mid == (lo + hi) \div 2
             l == NearestIn(list, value, lo, mid)
             r == NearestIn(list, value, mid + 1, hi)
         IN IF Abs(list[r] - value) < Abs(list[l] - value) THEN r ELSE l

get_nearest_element_and_index(list, value) ==
    NearestIn(list, value, 1, Len(list)) - 1

\* list[i] of Python: a negative index counts from the end, an index out of
\* range raises IndexError
IndexInRange(list, i) == i >= -Len(list) /\ i < Len(list)
PyIndex(list, i) == IF i < 0 THEN list[i + Len(list) + 1] ELSE list[i + 1]

\* number of elements of the slice [a:b] of a dimension of n elements
SliceBound(n, i) == IF i < 0 THEN (IF i + n < 0 THEN 0 ELSE i + n)
                    ELSE (IF i > n THEN n ELSE i)
SliceLen(n, a, b) ==
    IF SliceBound(n, b) > SliceBound(n, a)
    THEN SliceBound(n, b) - SliceBound(n, a) ELSE 0

----------------------------------------------------------------------------
(* get_square_around_tc(), lines 170-193 *)

NoSquare == [raised |-> FALSE, success |-> FALSE, lat1_idx |-> 0, lat2_idx |-> 0,
             lon1_idx |-> 0, lon2_idx |-> 0, lat1 |-> 0, lon1 |-> 0]

get_square_around_tc(tc_lon, tc_lat, half) ==
    LET tc_lon_in_grid_idx == get_nearest_element_and_index(smap_lons, tc_lon)
        tc_lat_in_grid_idx == get_nearest_element_and_index(smap_lats, tc_lat)
        lat1_idx == tc_lat_in_grid_idx - half
        lat2_idx == tc_lat_in_grid_idx + half
        lon1_idx == tc_lon_in_grid_idx - half
        lon2_idx == tc_lon_in_grid_idx + half
    IN  IF ~(/\ IndexInRange(smap_lats, lat1_idx) /\ IndexInRange(smap_lats, lat2_idx)
             /\ IndexInRange(smap_lons, lon1_idx) /\ IndexInRange(smap_lons, lon2_idx))
        THEN [NoSquare EXCEPT !.raised = TRUE]
        ELSE LET lat1 == PyIndex(smap_lats, lat1_idx)
                 lat2 == PyIndex(smap_lats, lat2_idx)
                 lon1 == PyIndex(smap_lons, lon1_idx)
             IN [raised |-> FALSE,
                 success |-> ~(lat1 < -720 \/ lat2 > 720),
                 lat1_idx |-> lat1_idx, lat2_idx |-> lat2_idx,
                 lon1_idx |-> lon1_idx, lon2_idx |-> lon2_idx,
                 lat1 |-> lat1,
                 lon1 |-> (lon1 + FullCircle) % FullCircle]

----------------------------------------------------------------------------
(* get_smap_part(), lines 236-349 *)

\* CONFIG['smap']['missing_value']
minute_missing == -9999
wind_missing == -9999

\* the query times (seconds of the day), the minute values and the wind
\* values the satellite file can hold
TcTimes == {43199, 43200, 43201, 84000}
Minutes == {minute_missing, 690, 720, 730, 750, 1405, 1410}
Winds == {wind_missing, 7}

\* the query points of an extraction, eighths of a degree: in the open
\* ocean, on the first column of the grid, on the last row of the grid
TcPoints == {<<1040, 80>>, <<1, 80>>, <<1040, 719>>}

\* the points get_square_around_tc is applied to: at and next to both poles,
\* on the equator, on the first and last columns of the grid
SquareLats == {-720, -719, -717, -715, 0, 80, 715, 717, 719, 720}
SquareLons == {0, 1, 3, 1040, 2877, 2879}

\* the cells <<y, x>> of the window the swath covers; the other cells hold
\* the missing values in both passes
SwathCells == {<<0, 0>>, <<1, 2>>, <<2, 1>>}

AllMissing == [minute |-> <<minute_missing, minute_missing>>,
               wind |-> <<wind_missing, wind_missing>>]
CellContents == [minute : Minutes \X Minutes, wind : Winds \X Winds]

lats_num == SliceLen(720, square.lat1_idx, square.lat2_idx + 1)
lons_num == SliceLen(1440, square.lon1_idx, square.lon2_idx + 1)

\* utils.hour_rounder on a time of the query date: the day (0 the query
\* date, 1 the next one) and the hour of the nearest whole hour
hour_rounder(t) ==
    LET rounded == (t \div SecondsPerHour) * SecondsPerHour
                   + ((t % SecondsPerHour) \div 1800) * SecondsPerHour
    IN [day |-> rounded \div SecondsPerDay,
        hour |-> (rounded % SecondsPerDay) \div SecondsPerHour]

\* line 289: the pixel is outside the temporal window
OutsideWindow_abs(delta) == Abs(delta) >= 1800
OutsideWindow(delta) ==
    TimedeltaDays(delta) # 0 \/ Abs(TimedeltaSeconds(delta)) >= 1800

\* lines 278-279: a field of the pass is missing
IsMissing_minute_only(c, i) == c.minute[i] = minute_missing
IsMissing(c, i) == c.minute[i] = minute_missing \/ c.wind[i] = wind_missing

\* lines 280-281: the two passes of the cell carry the same time
SamePassTimes_never(c) == FALSE
SamePassTimes(c) == c.minute[1] = c.minute[2]

\* str() of a float that is a whole number of eighths, as an f-string
\* formats row.lon and row.lat
FractionDigits(e) ==
    CASE e = 0 -> "0" [] e = 1 -> "125" [] e = 2 -> "25" [] e = 3 -> "375"
      [] e = 4 -> "5" [] e = 5 -> "625" [] e = 6 -> "75" [] OTHER -> "875"

FloatStr(e) ==
    (IF e < 0 THEN "-" ELSE "") \o ToString(Abs(e) \div 8) \o "."
    \o FractionDigits(Abs(e) % 8)

Pad2(n) == IF n < 10 THEN "0" \o ToString(n) ELSE ToString(n)

\* tc_dt.date(), the same for every pixel of a call
query_date == "2018-07-01"

\* str() of datetime.datetime.combine(tc_dt.date(), time_), t seconds of the day
DatetimeStr(t) ==
    query_date \o " " \o Pad2(t \div SecondsPerHour) \o ":"
    \o Pad2((t % SecondsPerHour) \div 60) \o ":" \o Pad2(t % 60)

\* lines 313-315: f"{row.satel_datetime}_{row.lon}_{row.lat}"
satel_datetime_lon_lat(dt, lon, lat) ==
    DatetimeStr(dt) \o "_" \o FloatStr(lon) \o "_" \o FloatStr(lat)

\* lines 277-336: pass i (1 or 2) of the cell c at row cy, column cx, with
\* st the rows, the envelope and the hours so far
ProcessPass(st, c, cy, cx, i) ==
    IF IsMissing(c, i) THEN st
    ELSE IF SamePassTimes(c) THEN st
    ELSE
    LET pixel_dt == c.minute[i] * 60
        delta == pixel_dt - query.tc_dt
    IN  IF OutsideWindow(delta) THEN st
        ELSE
        LET lon == cx * spa_resolu_smap + square.lon1
            lat == cy * spa_resolu_smap + square.lat1
            row == [sid |-> query.tc_id,
                    satel_datetime |-> pixel_dt,
                    x |-> cx - half_edge_grid_intervals,
                    y |-> cy - half_edge_grid_intervals,
                    lon |-> lon,
                    lat |-> lat,
                    satel_datetime_lon_lat |->
                        satel_datetime_lon_lat(pixel_dt, lon, lat),
                    smap_windspd |-> c.wind[i]]
            env == [north |-> IF lat > st.envelope.north THEN lat ELSE st.envelope.north,
                    west  |-> IF lon < st.envelope.west THEN lon ELSE st.envelope.west,
                    south |-> IF lat < st.envelope.south THEN lat ELSE st.envelope.south,
                    east  |-> IF lon > st.envelope.east THEN lon ELSE st.envelope.east]
            this_hourtime == hour_rounder(pixel_dt).hour
        IN  IF pixel_dt \div SecondsPerHour = 23 /\ this_hourtime = 0
            THEN [st EXCEPT !.envelope = env, !.rolled = @ + 1]
            ELSE [data |-> Append(st.data, row),
                  envelope |-> env,
                  hourtimes |-> st.hourtimes \cup {this_hourtime},
                  rolled |-> st.rolled]

\* lines 238-269: the square and the two fields of the window.  An
\* IndexError of get_square_around_tc reaches the except clause of extract;
\* so does the ValueError of line 229, which unpacks three values from the
\* two that line 241 returns when success is False
GetSquare ==
    /\ sm_pc = "start"
    /\ square' = get_square_around_tc(query.tc_lon, query.tc_lat,
                                      half_edge_grid_intervals)
    /\ sm_pc' = IF square'.raised \/ ~square'.success THEN "exited" ELSE "cells"
    /\ UNCHANGED <<query, half_edge_grid_intervals, y, x, cell, rolled, data,
                   envelope, hourtimes, smap_result>>

\* lines 271-336: the two passes of the cell at row y, column x
ProcessCell ==
    /\ sm_pc = "cells"
    /\ y < lats_num /\ lons_num > 0
    /\ \E c \in CellContents :
         /\ (<<y, x>> \notin SwathCells => c = AllMissing)
         /\ cell' = [y |-> y, x |-> x, minute |-> c.minute, wind |-> c.wind]
         /\ LET st0 == [data |-> data, envelope |-> envelope,
                        hourtimes |-> hourtimes, rolled |-> rolled]
                st1 == ProcessPass(st0, c, y, x, 1)
                st2 == ProcessPass(st1, c, y, x, 2)
            IN /\ data' = st2.data
               /\ envelope' = st2.envelope
               /\ hourtimes' = st2.hourtimes
               /\ rolled' = st2.rolled
    /\ IF x + 1 < lons_num
       THEN x' = x + 1 /\ y' = y
       ELSE x' = 0 /\ y' = y + 1
    /\ UNCHANGED <<query, half_edge_grid_intervals, sm_pc, square, smap_result>>

\* lines 346-349: the padded area, the return
diff == 4

ReturnSmapPart ==
    /\ sm_pc = "cells"
    /\ ~(y < lats_num /\ lons_num > 0)
    /\ sm_pc' = "returned"
    /\ smap_result' = [data |-> data,
                       hourtimes |-> hourtimes,
                       area |-> <<envelope.north + diff, envelope.west - diff,
                                  envelope.south - diff, envelope.east + diff>>]
    /\ UNCHANGED <<query, half_edge_grid_intervals, square, y, x, cell, rolled,
                   data, envelope, hourtimes>>

----------------------------------------------------------------------------
(* The ERA5 files: the fields a GRIB message holds *)

\* spatial resolutions, eighths of a degree
Quarter == 2
Half == 4

\* the messages of one hour of the single-levels file
SurfaceMessages ==
    << [name |-> "mean_sea_level_pressure", res |-> Quarter, level |-> 0],
       [name |-> "neutral_wind_at_10_m_u_component", res |-> Quarter, level |-> 0],
       [name |-> "neutral_wind_at_10_m_v_component", res |-> Quarter, level |-> 0],
       [name |-> "significant_height_of_combined_wind_waves_and_swell",
        res |-> Half, level |-> 0] >>

\* CONFIG['era5']['pres_lvls']
config_pres_lvls == <<1000, 975>>

PressureNames == <<"temperature", "relative_humidity">>

\* sorted(list(set(pres_lvls)))
RECURSIVE SortedSeq(_)
SortedSeq(S) ==
    IF S = {} THEN <<>>
    ELSE LET m == CHOOSE m \in S : \A n \in S : m <= n
         IN <<m>> \o SortedSeq(S \ {m})

\* the messages of one hour of the pressure-levels file, which is downloaded
\* for the levels of the rows
PressureMessages(lvls) ==
    LET levels == SortedSeq({lvls[k] : k \in 1..Len(lvls)})
        n == Len(levels)
    IN [m \in 1..(Len(PressureNames) * n) |->
           [name |-> PressureNames[((m - 1) \div n) + 1],
            res |-> Quarter,
            level |-> levels[((m - 1) % n) + 1]]]

\* the contents a file can have: the same value everywhere, or values that
\* vary with the position
Patterns == {"flat", "curved"}

BaseValue(name) ==
    IF name = "mean_sea_level_pressure" THEN 100000
    ELSE IF name = "neutral_wind_at_10_m_u_component" THEN 3
    ELSE IF name = "neutral_wind_at_10_m_v_component" THEN -4
    ELSE IF name = "temperature" THEN 280
    ELSE 2

\* the value of the field of message grb at the grid point lat, lon
FieldValue(pat, grb, hr, lat, lon) ==
    IF pat = "flat" THEN BaseValue(grb.name)
    ELSE IF grb.name = "mean_sea_level_pressure"
         THEN BaseValue(grb.name) - 600 * (lat - 76)
         ELSE BaseValue(grb.name) + lat * lat + lon + grb.level + hr \div 100

\* grb.data(south, north, west, east), flipped to run south to north: the
\* grid points of the message inside the area
FirstAtOrAfter(v, res) == v + ((-v) % res)
LastAtOrBefore(v, res) == v - (v % res)

Field(pat, grb, hr, area) ==
    LET north == area[1]
        west == area[2]
        south == area[3]
        east == area[4]
        lat0 == FirstAtOrAfter(south, grb.res)
        lon0 == FirstAtOrAfter(west, grb.res)
        nlat == IF LastAtOrBefore(north, grb.res) < lat0 THEN 0
                ELSE (LastAtOrBefore(north, grb.res) - lat0) \div grb.res + 1
        nlon == IF LastAtOrBefore(east, grb.res) < lon0 THEN 0
                ELSE (LastAtOrBefore(east, grb.res) - lon0) \div grb.res + 1
    IN [lats |-> [i \in 0..(nlat - 1) |-> lat0 + i * grb.res],
        lons |-> [j \in 0..(nlon - 1) |-> lon0 + j * grb.res],
        data |-> [ij \in (0..(nlat - 1)) \X (0..(nlon - 1)) |->
                     FieldValue(pat, grb, hr, lat0 + ij[1] * grb.res,
                                lon0 + ij[2] * grb.res)]]

RECURSIVE SumOver(_, _)
SumOver(f, S) ==
    IF S = {} THEN 0
    ELSE LET e == CHOOSE e \in S : TRUE IN f[e] + SumOver(f, S \ {e})

\* numpy mean of the elements of data with index in S
Mean(f, S) == Rat(SumOver(f, S), Cardinality(S))

\* utils.get_era5_corners_of_rss_cell: the indices in lats and lons of the
\* grid points that enclose the point lat, lon
get_era5_corners_of_rss_cell(lat, lon, lats, lons, res) ==
    LET lat1_idx == (LastAtOrBefore(lat, res) - lats[0]) \div res
        lon1_idx == (LastAtOrBefore(lon, res) - lons[0]) \div res
    IN [lat1_idx |-> lat1_idx,
        lat2_idx |-> IF lat % res = 0 THEN lat1_idx ELSE lat1_idx + 1,
        lon1_idx |-> lon1_idx,
        lon2_idx |-> IF lon % res = 0 THEN lon1_idx ELSE lon1_idx + 1]

\* data[lat1_idx:lat2_idx+1, lon1_idx:lon2_idx+1]
SquareIndices(c) == (c.lat1_idx..c.lat2_idx) \X (c.lon1_idx..c.lon2_idx)

\* value_of_rss_pt_in_era5_square(), lines 507-516: linear interpolation in
\* the square of the four corners
value_of_rss_pt_in_era5_square(fld, c, lat, lon, res) ==
    LET wlat(i) == IF i = c.lat1_idx THEN fld.lats[c.lat2_idx] - lat
                   ELSE lat - fld.lats[c.lat1_idx]
        wlon(j) == IF j = c.lon1_idx THEN fld.lons[c.lon2_idx] - lon
                   ELSE lon - fld.lons[c.lon1_idx]
        weighted == [ij \in SquareIndices(c) |->
                        fld.data[ij] * wlat(ij[1]) * wlon(ij[2])]
    IN Rat(SumOver(weighted, SquareIndices(c)), res * res)

----------------------------------------------------------------------------
(* get_hourtime_row_mapper(), lines 518-532 *)

Hourtimes == {100 * k : k \in 0..23}

\* the rows of a bucket, as indices 1..Len(part), in the order of the rows
closest_time_truncated(row) == 100 * (row.satel_datetime \div SecondsPerHour)
closest_time(row) == 100 * hour_rounder(row.satel_datetime).hour

get_hourtime_row_mapper(part) ==
    LET satel_day == 0
    IN [ht \in Hourtimes |->
           SelectSeq([k \in 1..Len(part) |-> k],
                     LAMBDA k : /\ hour_rounder(part[k].satel_datetime).day = satel_day
                                /\ closest_time(part[k]) = ht)]

\* the next hour at or after ht whose bucket is not empty, 2400 if none
NextHourtime(part, ht) ==
    LET mapper == get_hourtime_row_mapper(part)
        rest == {t \in Hourtimes : t >= ht /\ Len(mapper[t]) > 0}
    IN IF rest = {} THEN 2400 ELSE CHOOSE t \in rest : \A u \in rest : t <= u

\* setattr(row, name, value)
SetAttr(row, name, value) == (name :> value) @@ row
HasAttr(row, name) == name \in DOMAIN row

\* a mutation of kind k of the row begins or goes on
Mutated(log, k) ==
    IF Len(log) > 0 /\ log[Len(log)] = k THEN log ELSE Append(log, k)

----------------------------------------------------------------------------
(* extract_detail(), extract_era5() and the two passes *)

Era5Unchanged == UNCHANGED <<trackVars, smapVars>>

\* lines 139-140: no SMAP data around the point
SkipEmptyData ==
    /\ sm_pc = "returned" /\ e_pc = "idle"
    /\ Len(smap_result.data) = 0
    /\ e_pc' = "done"
    /\ UNCHANGED <<satel_part, pattern, hourtime, g, grbidx_open, pres_lvls,
                   reads, mutations, sink>>
    /\ Era5Unchanged

\* lines 383-415: the single-levels file is downloaded and indexed; the
\* download may raise, and extract_era5 then exits (lines 377-379)
DownloadSingleLevels ==
    /\ sm_pc = "returned" /\ e_pc = "idle"
    /\ Len(smap_result.data) > 0
    /\ \E ok \in BOOLEAN, pat \in Patterns :
         IF ok
         THEN /\ e_pc' = "single_hours"
              /\ satel_part' = smap_result.data
              /\ pattern' = pat
              /\ hourtime' = 0
              /\ grbidx_open' = TRUE
              /\ mutations' = [k \in 1..Len(smap_result.data) |-> <<>>]
              /\ UNCHANGED <<g, pres_lvls, reads, sink>>
         ELSE /\ e_pc' = "exited"
              /\ UNCHANGED <<satel_part, pattern, hourtime, g, grbidx_open,
                             pres_lvls, reads, mutations, sink>>
    /\ Era5Unchanged

\* lines 418-423 and 574-579: the hours of empty buckets are passed over and
\* the messages of the next hour are selected; select on an index that has
\* been closed fails
SelectHour(here, grbs) ==
    /\ e_pc = here
    /\ NextHourtime(satel_part, hourtime) < 2400
    /\ IF grbidx_open
       THEN /\ hourtime' = NextHourtime(satel_part, hourtime)
            /\ g' = 0
            /\ e_pc' = grbs
       ELSE /\ e_pc' = "exited"
            /\ UNCHANGED <<hourtime, g>>
    /\ UNCHANGED <<satel_part, pattern, grbidx_open, pres_lvls, reads,
                   mutations, sink>>
    /\ Era5Unchanged

SingleSelectHour == SelectHour("single_hours", "single_grbs")
PressureSelectHour == SelectHour("pressure_hours", "pressure_grbs")

\* lines 433 and 589: data, lats, lons = grb.data(south, north, west, east)
\* is called in the body of for grb in selected_grbs, before the loop over
\* the rows of the bucket
FieldReads_per_row(ht, m, bucket) == [b \in 1..Len(bucket) |-> <<ht, m>>]
FieldReads(ht, m, bucket) == << <<ht, m>> >>

\* lines 444-479: one row of the bucket is updated from the field
UpdateSingleRow(row, fld, grb, ht) ==
    LET c == get_era5_corners_of_rss_cell(row.lat, row.lon, fld.lats,
                                          fld.lons, grb.res)
        value == IF grb.res = Quarter
                 THEN Mean(fld.data, SquareIndices(c))
                 ELSE value_of_rss_pt_in_era5_square(fld, c, row.lat,
                                                     row.lon, grb.res)
    IN SetAttr(SetAttr(SetAttr(row,
           "era5_datetime", (ht \div 100) * SecondsPerHour),
           "satel_era5_diff_mins", row.satel_datetime \div 60 - (ht \div 100) * 60),
           grb.name, value)

\* lines 425-482: one message of the selected hour: the field is read once
\* and every row of the bucket is updated
SingleMessage ==
    /\ e_pc = "single_grbs"
    /\ g < Len(SurfaceMessages)
    /\ LET grb == SurfaceMessages[g + 1]
           fld == Field(pattern, grb, hourtime, smap_result.area)
           bucket == get_hourtime_row_mapper(satel_part)[hourtime]
           inBucket(k) == \E b \in 1..Len(bucket) : bucket[b] = k
       IN /\ satel_part' = [k \in 1..Len(satel_part) |->
                               IF inBucket(k)
                               THEN UpdateSingleRow(satel_part[k], fld, grb, hourtime)
                               ELSE satel_part[k]]
          /\ mutations' = [k \in 1..Len(satel_part) |->
                               IF inBucket(k)
                               THEN Mutated(mutations[k], "surface")
                               ELSE mutations[k]]
          /\ reads' = [reads EXCEPT
                          !.single = @ \o FieldReads(hourtime, g + 1, bucket)]
    /\ g' = g + 1
    /\ UNCHANGED <<e_pc, pattern, hourtime, grbidx_open, pres_lvls, sink>>
    /\ Era5Unchanged

\* lines 484 and 651: grbidx.close() at the end of the body of the hour loop
CloseIndex(grbs, n, back) ==
    /\ e_pc = grbs
    /\ g = n
    /\ grbidx_open' = FALSE
    /\ hourtime' = hourtime + 100
    /\ e_pc' = back
    /\ UNCHANGED <<satel_part, pattern, g, pres_lvls, reads, mutations, sink>>
    /\ Era5Unchanged

SingleCloseIndex ==
    CloseIndex("single_grbs", Len(SurfaceMessages), "single_hours")
PressureCloseIndex ==
    CloseIndex("pressure_grbs", Len(PressureMessages(pres_lvls)), "pressure_hours")

\* line 486: what follows the hour loop of add_era5_single_levels
AfterSingleHours_skipped == "pressure_download"
AfterSingleHours == "derived"

\* the hour loop of add_era5_single_levels is exhausted
SingleHoursDone ==
    /\ e_pc = "single_hours"
    /\ NextHourtime(satel_part, hourtime) = 2400
    /\ e_pc' = AfterSingleHours
    /\ hourtime' = 2400
    /\ UNCHANGED <<satel_part, pattern, g, grbidx_open, pres_lvls, reads,
                   mutations, sink>>
    /\ Era5Unchanged

\* utils.get_nearest_element_and_index(self.pres_lvls, mslp / 100), with
\* mslp an exact rational
RECURSIVE NearestLevel(_, _, _)
NearestLevel(mslp, i, best) ==
    IF i > Len(config_pres_lvls) THEN config_pres_lvls[best]
    ELSE LET dist(k) == Abs(100 * config_pres_lvls[k] * mslp[2] - mslp[1])
         IN NearestLevel(mslp, i + 1, IF dist(i) < dist(best) THEN i ELSE best)

\* utils.compose_wind and utils.decompose_wind, as terms over their arguments
compose_wind(u, v) == [windspd |-> <<"windspd", u, v>>, winddir |-> <<"winddir", u, v>>]
decompose_wind(windspd, winddir) ==
    [u |-> <<"u", windspd, winddir>>, v |-> <<"v", windspd, winddir>>]

DerivedRow(row) ==
    LET w == compose_wind(row.neutral_wind_at_10_m_u_component,
                          row.neutral_wind_at_10_m_v_component)
        uv == decompose_wind(row.smap_windspd, w.winddir)
    IN SetAttr(SetAttr(SetAttr(SetAttr(row,
           "era5_10m_neutral_equivalent_windspd", w.windspd),
           "era5_10m_neutral_equivalent_winddir", w.winddir),
           "smap_u_wind", uv.u),
           "smap_v_wind", uv.v)

\* lines 486-505: the nearest pressure level and the derived variables of
\* every row; a row without the surface fields raises AttributeError
DerivedVariables ==
    /\ e_pc = "derived"
    /\ IF \A k \in 1..Len(satel_part) :
              /\ HasAttr(satel_part[k], "mean_sea_level_pressure")
              /\ HasAttr(satel_part[k], "neutral_wind_at_10_m_u_component")
              /\ HasAttr(satel_part[k], "neutral_wind_at_10_m_v_component")
       THEN /\ pres_lvls' = [k \in 1..Len(satel_part) |->
                   NearestLevel(satel_part[k].mean_sea_level_pressure, 2, 1)]
            /\ satel_part' = [k \in 1..Len(satel_part) |-> DerivedRow(satel_part[k])]
            /\ mutations' = [k \in 1..Len(satel_part) |->
                                Mutated(mutations[k], "derived")]
            /\ e_pc' = "pressure_download"
       ELSE /\ e_pc' = "exited"
            /\ UNCHANGED <<pres_lvls, satel_part, mutations>>
    /\ UNCHANGED <<pattern, hourtime, g, grbidx_open, reads, sink>>
    /\ Era5Unchanged

\* lines 534-571: the pressure-levels file is downloaded and indexed
DownloadPressureLevels ==
    /\ e_pc = "pressure_download"
    /\ \E ok \in BOOLEAN :
         IF ok
         THEN /\ e_pc' = "pressure_hours"
              /\ hourtime' = 0
              /\ grbidx_open' = TRUE
         ELSE /\ e_pc' = "exited"
              /\ UNCHANGED <<hourtime, grbidx_open>>
    /\ UNCHANGED <<satel_part, pattern, g, pres_lvls, reads, mutations, sink>>
    /\ Era5Unchanged

\* line 640: the mean of the whole field that was read
WholeFieldIndices(fld) == DOMAIN fld.data

PressureMeanIndices_square(fld, c) == SquareIndices(c)
PressureMeanIndices(fld, c) == WholeFieldIndices(fld)

\* lines 605-646: one row of the bucket is updated from the field
UpdatePressureRow(row, fld, grb) ==
    LET c == get_era5_corners_of_rss_cell(row.lat, row.lon, fld.lats,
                                          fld.lons, grb.res)
        value == IF grb.res = Quarter
                 THEN Mean(fld.data, PressureMeanIndices(fld, c))
                 ELSE value_of_rss_pt_in_era5_square(fld, c, row.lat,
                                                     row.lon, grb.res)
    IN SetAttr(row, grb.name, value)

\* lines 581-649: one message of the selected hour: the field is read once
\* and the rows of the bucket on the level of the message are updated
PressureMessage ==
    /\ e_pc = "pressure_grbs"
    /\ g < Len(PressureMessages(pres_lvls))
    /\ LET grb == PressureMessages(pres_lvls)[g + 1]
           fld == Field(pattern, grb, hourtime, smap_result.area)
           bucket == get_hourtime_row_mapper(satel_part)[hourtime]
           updated(k) == /\ \E b \in 1..Len(bucket) : bucket[b] = k
                         /\ pres_lvls[k] = grb.level
       IN /\ satel_part' = [k \in 1..Len(satel_part) |->
                               IF updated(k)
                               THEN UpdatePressureRow(satel_part[k], fld, grb)
                               ELSE satel_part[k]]
          /\ mutations' = [k \in 1..Len(satel_part) |->
                               IF updated(k)
                               THEN Mutated(mutations[k], "pressure")
                               ELSE mutations[k]]
          /\ reads' = [reads EXCEPT
                          !.pressure = @ \o FieldReads(hourtime, g + 1, bucket)]
    /\ g' = g + 1
    /\ UNCHANGED <<e_pc, pattern, hourtime, grbidx_open, pres_lvls, sink>>
    /\ Era5Unchanged

\* the hour loop of add_era5_pressure_levels is exhausted, extract_era5
\* returns
PressureHoursDone ==
    /\ e_pc = "pressure_hours"
    /\ NextHourtime(satel_part, hourtime) = 2400
    /\ e_pc' = "sink"
    /\ hourtime' = 2400
    /\ UNCHANGED <<satel_part, pattern, g, grbidx_open, pres_lvls, reads,
                   mutations, sink>>
    /\ Era5Unchanged

\* lines 144-148: the rows are handed to the sink
BulkInsert ==
    /\ e_pc = "sink"
    /\ sink' = satel_part
    /\ e_pc' = "done"
    /\ UNCHANGED <<satel_part, pattern, hourtime, g, grbidx_open, pres_lvls,
                   reads, mutations>>
    /\ Era5Unchanged

Era5Idle ==
    /\ e_pc = "idle"
    /\ satel_part = <<>>
    /\ pattern = "flat"
    /\ hourtime = 0
    /\ g = 0
    /\ grbidx_open = FALSE
    /\ pres_lvls = <<>>
    /\ reads = [single |-> <<>>, pressure |-> <<>>]
    /\ mutations = <<>>
    /\ sink = <<>>

NoCell == [y |-> -1, x |-> -1, minute |-> AllMissing.minute, wind |-> AllMissing.wind]
NoResult == [data |-> <<>>, hourtimes |-> {}, area |-> <<0, 0, 0, 0>>]

\* lines 264-269
SmapStart ==
    /\ sm_pc = "start"
    /\ square = NoSquare
    /\ y = 0 /\ x = 0
    /\ cell = NoCell
    /\ rolled = 0
    /\ data = <<>>
    /\ envelope = [north |-> -720, west |-> 2880, south |-> 720, east |-> 0]
    /\ hourtimes = {}
    /\ smap_result = NoResult

SmapIdle ==
    /\ query = [tc_id |-> 1, tc_dt |-> 0, tc_lon |-> 0, tc_lat |-> 0]
    /\ half_edge_grid_intervals = 0
    /\ SmapStart

TrackIdle ==
    /\ tc_query = <<>>
    /\ idx = 0
    /\ pc = "done"
    /\ hours = 0
    /\ h = 0
    /\ calls = <<>>

InitTrack ==
    /\ tc_query \in TrackInputs
    /\ idx = 0
    /\ pc = "loop"
    /\ hours = 0
    /\ h = 0
    /\ calls = <<>>
    /\ SmapIdle
    /\ Era5Idle

NextTrack ==
    \/ SkipLand /\ UNCHANGED <<smapVars, era5Vars>>
    \/ ExtractSingle /\ UNCHANGED <<smapVars, era5Vars>>
    \/ ExtractFarApart /\ UNCHANGED <<smapVars, era5Vars>>
    \/ EnterBetween /\ UNCHANGED <<smapVars, era5Vars>>
    \/ BetweenCall /\ UNCHANGED <<smapVars, era5Vars>>
    \/ BetweenReturn /\ UNCHANGED <<smapVars, era5Vars>>
    \/ ExtractReturn /\ UNCHANGED <<smapVars, era5Vars>>

SpecTrack == InitTrack /\ [][NextTrack]_vars

InitSmap ==
    /\ query \in {[tc_id |-> 1, tc_dt |-> t, tc_lon |-> p[1], tc_lat |-> p[2]] :
                      t \in TcTimes, p \in TcPoints}
    /\ half_edge_grid_intervals \in 1..MaxHalfEdge
    /\ SmapStart
    /\ TrackIdle
    /\ Era5Idle

NextSmap ==
    \/ GetSquare /\ UNCHANGED <<trackVars, era5Vars>>
    \/ ProcessCell /\ UNCHANGED <<trackVars, era5Vars>>
    \/ ReturnSmapPart /\ UNCHANGED <<trackVars, era5Vars>>

SpecSmap == InitSmap /\ [][NextSmap]_vars

InitDetail == InitSmap

NextDetail ==
    \/ NextSmap
    \/ SkipEmptyData
    \/ DownloadSingleLevels
    \/ SingleSelectHour
    \/ SingleMessage
    \/ SingleCloseIndex
    \/ SingleHoursDone
    \/ DerivedVariables
    \/ DownloadPressureLevels
    \/ PressureSelectHour
    \/ PressureMessage
    \/ PressureCloseIndex
    \/ PressureHoursDone
    \/ BulkInsert

SpecDetail == InitDetail /\ [][NextDetail]_vars

InitSquare ==
    /\ query \in [tc_id : {1}, tc_dt : {43200}, tc_lon : SquareLons,
                   tc_lat : SquareLats]
    /\ half_edge_grid_intervals \in 1..MaxHalfEdge
    /\ SmapStart
    /\ TrackIdle
    /\ Era5Idle

NextSquare == GetSquare /\ UNCHANGED <<trackVars, era5Vars>>

SpecSquare == InitSquare /\ [][NextSquare]_vars

----------------------------------------------------------------------------
(* Properties of the traversal *)

FixAt(i) == tc_query[i + 1]
FixIsLand(i) == is_land(FixAt(i).lat, longtitude_converter(FixAt(i).lon))
SameTrack(i) == i < total - 1 /\ FixAt(i).sid = FixAt(i + 1).sid
GapOf(i) == FixAt(i + 1).date_time - FixAt(i).date_time
WholeHours(i) == GapOf(i) \div SecondsPerHour
SubDayWholeHours(i) ==
    /\ GapOf(i) < SecondsPerDay
    /\ GapOf(i) % SecondsPerHour = 0
    /\ WholeHours(i) >= 1

\* what a call was made with
Point(c) == [sid |-> c.sid, dt |-> c.dt, lon |-> c.lon, lat |-> c.lat]
IsOf(i, c) == c.of = i
CallsOf(i) == SelectSeq(calls, LAMBDA c : IsOf(i, c))

\* the linear interpolant fix0 + k/H * (fix1 - fix0) between fix i and fix i+1
Interpolant(i, k) ==
    LET f0 == FixAt(i)
        f1 == FixAt(i + 1)
        H  == WholeHours(i)
    IN [sid |-> f0.sid,
        dt  |-> f0.date_time + k * SecondsPerHour,
        lon |-> Rat(f0.lon * H + k * (f1.lon - f0.lon), H),
        lat |-> Rat(f0.lat * H + k * (f1.lat - f0.lat), H)]

Original(f) ==
    [sid |-> f.sid, dt |-> f.date_time, lon |-> Rat(f.lon, 1), lat |-> Rat(f.lat, 1)]

\* C3 (as claimed): a failing extraction does not end the traversal: the
\* process never exits because of a fix that failed.
C3_TraversalContinues ==
    (\E k \in 1..Len(calls) : ~calls[k].ok) => pc # "exited"

\* C5: for a pair of consecutive same-track fixes with a sub-day gap of H
\* whole hours (H >= 1), extract_between_two_tc_records calls extract_detail
\* exactly H times, and call number h (h = 0 .. H-1, the loop variable) is
\* made with fix0 + h/H * (fix1 - fix0) for longitude and latitude, time
\* fix0.time + h hours and the track id of the pair.
C5_Interpolation ==
    \A i \in 0..(total - 2) :
        (~FixIsLand(i) /\ SameTrack(i) /\ SubDayWholeHours(i))
        => /\ Len(CallsOf(i)) <= WholeHours(i)
           /\ idx > i => Len(CallsOf(i)) = WholeHours(i)
           /\ \A k \in 1..Len(CallsOf(i)) :
                  Point(CallsOf(i)[k]) = Interpolant(i, k - 1)

\* a pair three hours apart and at different positions has been interpolated
C5_Witness ==
    \E i \in 0..(total - 2) :
        /\ idx > i /\ ~FixIsLand(i) /\ SameTrack(i) /\ SubDayWholeHours(i)
        /\ WholeHours(i) = 3
        /\ FixAt(i).lon # FixAt(i + 1).lon
        /\ Len(CallsOf(i)) = 3

FarApart(i) == SameTrack(i) /\ GapOf(i) >= SecondsPerDay

\* C6 (as claimed): for two consecutive same-track fixes a day or more apart
\* extraction is performed exactly once, at the second fix's time and position.
C6_AtSecondFix ==
    \A i \in 0..(total - 2) :
        (idx > i /\ ~FixIsLand(i) /\ FarApart(i))
        => /\ Len(CallsOf(i)) = 1
           /\ Point(CallsOf(i)[1]) = Original(FixAt(i + 1))

\* C6 (amended): for two consecutive same-track fixes a day or more apart no
\* interpolated point is produced and extraction is performed exactly once
\* for the pair, at the first fix's original time and position.
C6_AtFirstFix ==
    \A i \in 0..(total - 2) :
        (~FixIsLand(i) /\ FarApart(i))
        => /\ Len(CallsOf(i)) <= 1
           /\ idx > i => Len(CallsOf(i)) = 1
           /\ \A k \in 1..Len(CallsOf(i)) :
                  Point(CallsOf(i)[k]) = Original(FixAt(i))

C6_Witness ==
    \E i \in 0..(total - 2) :
        /\ idx > i /\ ~FixIsLand(i) /\ FarApart(i)
        /\ FixAt(i).lon # FixAt(i + 1).lon
        /\ Len(CallsOf(i)) = 1

\* the extraction points the traversal owes from fix i on: every original
\* fix, and every whole hour strictly between two consecutive fixes of one
\* track, in time order
RECURSIVE ExpectedFrom(_)
ExpectedFrom(i) ==
    IF i >= total THEN <<>>
    ELSE <<Original(FixAt(i))>>
         \o (IF SameTrack(i)
             THEN [k \in 1..(WholeHours(i) - 1) |-> Interpolant(i, k)]
             ELSE <<>>)
         \o ExpectedFrom(i + 1)

AllOceanWholeHours ==
    /\ \A i \in 0..(total - 1) : ~FixIsLand(i)
    /\ \A i \in 0..(total - 2) : SameTrack(i) => SubDayWholeHours(i)

IsPrefix(s, t) == Len(s) <= Len(t) /\ \A k \in 1..Len(s) : s[k] = t[k]

MadeCalls == [k \in 1..Len(calls) |-> Point(calls[k])]

\* C7: for ocean fixes with sub-day whole-hour gaps inside a track, extract
\* triggers extraction once at every original fix and once at every whole
\* hour strictly between two consecutive fixes of one track, in increasing
\* time order and nowhere else; nothing is interpolated between fixes of
\* different tracks.
C7_ExtractionPoints ==
    AllOceanWholeHours
    => /\ IsPrefix(MadeCalls, ExpectedFrom(0))
       /\ pc = "done" => MadeCalls = ExpectedFrom(0)
       /\ \A j, k \in 1..Len(calls) :
              (j < k /\ calls[j].sid = calls[k].sid) => calls[j].dt < calls[k].dt

\* the traversal of fixes two hours and 5 degrees apart has finished with
\* the midpoint extracted, and the query result also holds a second track
C7_Witness ==
    /\ pc = "done"
    /\ AllOceanWholeHours
    /\ \E i \in 0..(total - 2) :
          /\ SameTrack(i) /\ WholeHours(i) = 2
          /\ FixAt(i + 1).lon - FixAt(i).lon = 5
          /\ \E k \in 1..Len(calls) : calls[k].lon = <<265, 2>>
    /\ \E i \in 0..(total - 2) : ~SameTrack(i)

----------------------------------------------------------------------------
(* Properties of get_square_around_tc and get_smap_part *)

NearestLatIdx == get_nearest_element_and_index(smap_lats, query.tc_lat)

\* the centred window leaves the 720 rows of the grid
WindowOutsideGrid ==
    \/ NearestLatIdx - half_edge_grid_intervals < 0
    \/ NearestLatIdx + half_edge_grid_intervals > 719

\* C2 (as claimed): get_square_around_tc never raises, returns success =
\* False when the centred window leaves the latitude grid, and success =
\* True with in-range, non-wrapped indices otherwise.
C2_SquareRejectsPoleWindows ==
    sm_pc # "start"
    => /\ ~square.raised
       /\ WindowOutsideGrid => ~square.success
       /\ ~WindowOutsideGrid =>
            /\ square.success
            /\ 0 <= square.lat1_idx /\ square.lat2_idx <= 719
            /\ 0 <= square.lon1_idx /\ square.lon2_idx <= 1439

\* the offset in seconds of pass i of the cell read last from the query time
Offset(i) == cell.minute[i] * 60 - query.tc_dt

\* pass i of the cell read last has values and the two pass times differ
HasValues(i) ==
    /\ cell.minute[i] # minute_missing
    /\ cell.wind[i] # wind_missing
    /\ cell.minute[1] # cell.minute[2]

\* a row of the rows kept comes from pass i of the cell read last
Kept(i) ==
    \E k \in 1..Len(data) :
        /\ data[k].y = cell.y - half_edge_grid_intervals
        /\ data[k].x = cell.x - half_edge_grid_intervals
        /\ data[k].satel_datetime = cell.minute[i] * 60

\* C1 (as claimed): a pass with values and differing pass times is kept
\* exactly when its offset d from the query time has |d| <= 1799 seconds,
\* earlier or later.
C1_WithinThirtyMinutes ==
    cell.y >= 0 =>
        \A i \in 1..2 : HasValues(i) => (Kept(i) <=> Abs(Offset(i)) <= 1799)

\* C8: no row kept or returned by get_smap_part comes from a pass whose wind
\* is the wind sentinel or whose minute is the minute sentinel.
C8_NoMissingValues ==
    /\ \A k \in 1..Len(data) :
           /\ data[k].smap_windspd # wind_missing
           /\ data[k].satel_datetime # minute_missing * 60
    /\ \A k \in 1..Len(smap_result.data) :
           /\ smap_result.data[k].smap_windspd # wind_missing
           /\ smap_result.data[k].satel_datetime # minute_missing * 60
    /\ cell.y >= 0 =>
           \A i \in 1..2 :
               (cell.wind[i] = wind_missing \/ cell.minute[i] = minute_missing)
               => ~Kept(i)

\* get_smap_part has kept a row of a cell whose other pass, inside the
\* window of the query time, holds the wind sentinel
C8_Witness ==
    /\ cell.y >= 0
    /\ Len(data) > 0
    /\ \E i \in 1..2 :
          /\ cell.wind[i] = wind_missing
          /\ cell.minute[i] # minute_missing
          /\ Offset(i) >= 0 /\ Offset(i) < 1800
          /\ Kept(3 - i)

----------------------------------------------------------------------------
(* Properties of the ERA5 passes *)

\* the mean of the cells of the field of grb at hour ht that enclose the row
EnclosingCellMean(row, grb, ht) ==
    LET fld == Field(pattern, grb, ht, smap_result.area)
        c == get_era5_corners_of_rss_cell(row.lat, row.lon, fld.lats,
                                          fld.lons, grb.res)
    IN Mean(fld.data, (c.lat1_idx..c.lat2_idx) \X (c.lon1_idx..c.lon2_idx))

RowHourtime(row) == 100 * (row.era5_datetime \div SecondsPerHour)

\* C4 (as claimed): a value written from a field of resolution 0.25 is the
\* mean of the cells enclosing the row, in the surface pass and in the
\* pressure-level pass alike.
C4_EnclosingCellMean ==
    \A k \in 1..Len(satel_part) :
        /\ \A m \in 1..Len(SurfaceMessages) :
               (/\ SurfaceMessages[m].res = Quarter
                /\ SurfaceMessages[m].name \in DOMAIN satel_part[k])
               => satel_part[k][SurfaceMessages[m].name]
                  = EnclosingCellMean(satel_part[k], SurfaceMessages[m],
                                      RowHourtime(satel_part[k]))
        /\ \A n \in 1..Len(PressureNames) :
               PressureNames[n] \in DOMAIN satel_part[k]
               => satel_part[k][PressureNames[n]]
                  = EnclosingCellMean(satel_part[k],
                        [name |-> PressureNames[n], res |-> Quarter,
                         level |-> pres_lvls[k]],
                        RowHourtime(satel_part[k]))

\* the nearest whole hour of a time of the query date
RoundsToNextDay(t) == t + 1800 >= SecondsPerDay
RoundedHour(t) == ((t + 1800) \div SecondsPerHour) % 24

InBucket(ht, k) ==
    LET bucket == get_hourtime_row_mapper(satel_part)[ht]
    IN \E b \in 1..Len(bucket) : bucket[b] = k

SmapFields == {"sid", "satel_datetime", "x", "y", "lon", "lat",
               "satel_datetime_lon_lat", "smap_windspd"}

\* C9: a pixel whose time rounds to hour 0 of the next day never becomes a
\* row, and a row whose time rounds to the next day is in none of the 24
\* buckets and is never written by a pass; every other row is in exactly
\* one bucket, the one keyed 100 * its rounded hour.
C9_Buckets ==
    /\ cell.y >= 0 =>
           \A i \in 1..2 :
               (cell.minute[i] # minute_missing
                /\ RoundsToNextDay(cell.minute[i] * 60)) => ~Kept(i)
    /\ \A k \in 1..Len(satel_part) :
           IF RoundsToNextDay(satel_part[k].satel_datetime)
           THEN /\ \A ht \in Hourtimes : ~InBucket(ht, k)
                /\ DOMAIN satel_part[k] = SmapFields
           ELSE /\ \A ht \in Hourtimes :
                       InBucket(ht, k)
                       <=> ht = 100 * RoundedHour(satel_part[k].satel_datetime)
                /\ \A ht \in Hourtimes :
                       Cardinality({b \in 1..Len(get_hourtime_row_mapper(satel_part)[ht]) :
                           get_hourtime_row_mapper(satel_part)[ht][b] = k}) <= 1

\* a pass at 23:30 or later was dropped from a batch whose other rows, of
\* hour 23, went through both passes to the sink
C9_Witness ==
    /\ rolled > 0
    /\ Len(sink) > 0
    /\ \A k \in 1..Len(sink) :
          /\ sink[k].satel_datetime \div SecondsPerHour = 23
          /\ InBucket(2300, k)
          /\ "temperature" \in DOMAIN sink[k]

----------------------------------------------------------------------------
(* Properties of the batch and of the envelope *)

DistinctKeys(rows) ==
    \A j, k \in 1..Len(rows) :
        j # k => rows[j].satel_datetime_lon_lat # rows[k].satel_datetime_lon_lat

\* the key of a row is the one built from its time, longitude and latitude
KeyOfFields(rows) ==
    \A k \in 1..Len(rows) :
        rows[k].satel_datetime_lon_lat
        = satel_datetime_lon_lat(rows[k].satel_datetime, rows[k].lon, rows[k].lat)

\* C11: the uniqueness key satel_datetime_lon_lat, built from observation
\* time, longitude and latitude, is pairwise distinct among the rows
\* get_smap_part keeps and returns, among the rows the ERA5 passes work on
\* and among the rows extract_detail hands to the sink, for any contents of
\* the two passes of the cells of the window.
C11_DistinctKeys ==
    /\ DistinctKeys(data) /\ KeyOfFields(data)
    /\ DistinctKeys(smap_result.data) /\ KeyOfFields(smap_result.data)
    /\ DistinctKeys(satel_part) /\ KeyOfFields(satel_part)
    /\ DistinctKeys(sink) /\ KeyOfFields(sink)

\* a batch in the sink holds both passes of one cell and two pixels of
\* different cells with the same observation time
C11_Witness ==
    /\ Len(sink) >= 3
    /\ \E j, k \in 1..Len(sink) :
          /\ j # k
          /\ sink[j].lon = sink[k].lon /\ sink[j].lat = sink[k].lat
    /\ \E j, k \in 1..Len(sink) :
          /\ j # k
          /\ sink[j].satel_datetime = sink[k].satel_datetime

MaxOver(S) == CHOOSE m \in S : \A n \in S : n <= m
MinOver(S) == CHOOSE m \in S : \A n \in S : m <= n
LatsOf(rows) == {rows[k].lat : k \in 1..Len(rows)}
LonsOf(rows) == {rows[k].lon : k \in 1..Len(rows)}

\* C12 (as claimed): when get_smap_part returns rows, the returned area
\* [north, west, south, east] is the largest latitude, smallest longitude,
\* smallest latitude and largest longitude of exactly the returned rows,
\* each moved outward by 0.5 degrees; discarded pixels add nothing.
C12_EnvelopeOfKeptRows ==
    (sm_pc = "returned" /\ Len(smap_result.data) > 0)
    => smap_result.area = << MaxOver(LatsOf(smap_result.data)) + 4,
                             MinOver(LonsOf(smap_result.data)) - 4,
                             MinOver(LatsOf(smap_result.data)) - 4,
                             MaxOver(LonsOf(smap_result.data)) + 4 >>

----------------------------------------------------------------------------
(* Properties of the hour loops of the two passes *)

NonEmptyHours(part) ==
    {ht \in Hourtimes : Len(get_hourtime_row_mapper(part)[ht]) > 0}

InSomeBucket(k) == \E ht \in Hourtimes : InBucket(ht, k)

SurfaceNames == {SurfaceMessages[m].name : m \in 1..Len(SurfaceMessages)}

\* C13 (as claimed): each pass processes every hour whose bucket is not
\* empty: the index is open whenever the messages of a further non-empty
\* hour are about to be selected, and when a pass returns every row of
\* every non-empty bucket has a value for every variable of its hour.
C13_EveryHourProcessed ==
    /\ (/\ e_pc \in {"single_hours", "pressure_hours"}
        /\ NextHourtime(satel_part, hourtime) < 2400)
       => grbidx_open
    /\ e_pc \in {"derived", "pressure_download", "pressure_hours",
                 "pressure_grbs", "sink", "done"}
       => \A k \in 1..Len(satel_part) :
              InSomeBucket(k) => SurfaceNames \subseteq DOMAIN satel_part[k]
    /\ e_pc \in {"sink", "done"}
       => \A k \in 1..Len(satel_part) :
              InSomeBucket(k)
              => \A n \in 1..Len(PressureNames) :
                     PressureNames[n] \in DOMAIN satel_part[k]

MessagesOf(p) ==
    IF p = "single" THEN Len(SurfaceMessages) ELSE Len(PressureMessages(pres_lvls))

\* the pairs (non-empty hour bucket, message) of pass p
PairsOf(p) == NonEmptyHours(satel_part) \X (1..MessagesOf(p))

ReadSet(p) == {reads[p][n] : n \in 1..Len(reads[p])}

\* pass p is at its hour loop
Running(p) ==
    IF p = "single" THEN e_pc \in {"single_hours", "single_grbs"}
    ELSE e_pc \in {"pressure_hours", "pressure_grbs"}

\* pass p is at the messages of the hour it selected
AtMessages(p) == e_pc = (IF p = "single" THEN "single_grbs" ELSE "pressure_grbs")

\* pass p has returned
Returned(p) ==
    IF p = "single"
    THEN e_pc \in {"derived", "pressure_download", "pressure_hours",
                  "pressure_grbs", "sink", "done"}
    ELSE e_pc \in {"sink", "done"}

\* C14: in each pass the field is read once for a pair (non-empty hour
\* bucket, message) and never once per row: no pair is read twice, an hour
\* with an empty bucket is never read, every pair the hour loop has gone
\* through has been read, and a pass that returns has read exactly the
\* pairs, so that the number of reads is the number of pairs whatever the
\* number of rows.
C14_OneReadPerPair ==
    \A p \in {"single", "pressure"} :
        /\ \A m, n \in 1..Len(reads[p]) : m # n => reads[p][m] # reads[p][n]
        /\ ReadSet(p) \subseteq PairsOf(p)
        /\ Running(p) =>
               ReadSet(p) =
                   {pr \in PairsOf(p) :
                       \/ pr[1] < hourtime
                       \/ AtMessages(p) /\ pr[1] = hourtime /\ pr[2] <= g}
        /\ Returned(p) =>
               /\ ReadSet(p) = PairsOf(p)
               /\ Len(reads[p]) = Cardinality(NonEmptyHours(satel_part)) * MessagesOf(p)

\* both passes have returned for a batch with a bucket of two or more
\* rows on different pressure levels: four surface fields and four
\* pressure-level fields were read
C14_Witness ==
    /\ e_pc = "done"
    /\ Len(sink) >= 2
    /\ \E ht \in Hourtimes : Len(get_hourtime_row_mapper(satel_part)[ht]) >= 2
    /\ \E j, k \in 1..Len(pres_lvls) : pres_lvls[j] # pres_lvls[k]
    /\ Len(reads.single) = 4
    /\ Len(reads.pressure) = 4

----------------------------------------------------------------------------
(* Properties of extract_between_two_tc_records on short gaps *)

\* an extract_detail call made for fix i raised
CallRaisedAt(i) == \E k \in 1..Len(calls) : calls[k].of = i /\ ~calls[k].ok

\* C15 (as claimed): for two consecutive same-track fixes less than a day
\* apart extract_between_two_tc_records does not raise by itself, gaps
\* shorter than one hour included: the traversal ends at such a pair only
\* when an extract_detail call of the pair raised, and a pair with a whole
\* hour count of 0 is passed with no interpolated point.
C15_SubHourGapCompletes ==
    \A i \in 0..(total - 2) :
        (~FixIsLand(i) /\ SameTrack(i) /\ GapOf(i) < SecondsPerDay)
        => /\ (pc = "exited" /\ idx = i) => CallRaisedAt(i)
           /\ (idx > i /\ WholeHours(i) = 0) => Len(CallsOf(i)) = 0

====
